---------------------------- MODULE Spec2Model ----------------------------
(***************************************************************************)
(* State-machine model of the incremental scrape queue of                  *)
(* src/src/core/queue.py: VehicleFingerprint, QueueItem and ScrapeQueue    *)
(* with its per-provider persisted snapshots, driven by the calls the      *)
(* scraper driver makes (add, add_batch, get_next, complete, fail, clear)  *)
(* and by process restarts that reload the snapshots.                      *)
(*                                                                         *)
(* Strings that the code manipulates character by character are modelled   *)
(* as sequences of one-character strings; a provider id is one token of    *)
(* such a sequence.                                                        *)
(***************************************************************************)
EXTENDS Integers, Sequences, FiniteSets, TLC

\* ------------------------------------------------------------------ bounds
\* the clock takes the values 0..MaxClock
MaxClock == 1
\* items created by add and add_batch in one run
MaxAdds == 2
\* items handed out by get_next in one run
MaxHandouts == 4
\* entries of a queue file found on disk
MaxEntries == 2
\* detect_changes calls in one run
MaxRuns == 2

\* ------------------------------------------------- enums and constants
\* class Priority(int, Enum)
CRITICAL == 1
HIGH == 2
NORMAL == 3
LOW == 4
Priority == {CRITICAL, HIGH, NORMAL, LOW}

\* class QueueItemStatus(str, Enum)
PENDING == "pending"
IN_PROGRESS == "in_progress"
COMPLETED == "completed"
FAILED == "failed"
SKIPPED == "skipped"
QueueItemStatus == {PENDING, IN_PROGRESS, COMPLETED, FAILED, SKIPPED}

\* QueueItem.max_attempts default
max_attempts == 3

\* Python's None
None == "None"

\* ------------------------------------------------------------ strings
EmptyStr == << >>

LowerChar(c) ==
    CASE c = "T" -> "t"
      [] c = "S" -> "s"
      [] c = "Y" -> "y"
      [] c = "C" -> "c"
      [] c = "A" -> "a"
      [] OTHER -> c

\* str.lower()
Lower(s) == [i \in DOMAIN s |-> LowerChar(s[i])]

\* str.replace(' ', '-')
ReplaceSpace(s) == [i \in DOMAIN s |-> IF s[i] = " " THEN "-" ELSE s[i]]

\* filter(None, parts): the parts that are not the empty string
RECURSIVE FilterNonEmpty(_)
FilterNonEmpty(parts) ==
    IF parts = << >> THEN << >>
    ELSE IF Head(parts) = EmptyStr THEN FilterNonEmpty(Tail(parts))
         ELSE <<Head(parts)>> \o FilterNonEmpty(Tail(parts))

\* '_'.join(parts)
RECURSIVE Join(_)
Join(parts) ==
    IF parts = << >> THEN EmptyStr
    ELSE IF Len(parts) = 1 THEN Head(parts)
         ELSE Head(parts) \o <<"_">> \o Join(Tail(parts))

\* ------------------------------------------------- VehicleFingerprint
\* dict.get(k, default)
Get(vehicle, k, default) == IF k \in DOMAIN vehicle THEN vehicle[k] ELSE default

IdentityFields ==
    {"brand", "model", "model_name", "edition_name", "edition",
     "variant_slug", "edition_slug", "url", "source_url"}

\* VehicleFingerprint.from_vehicle_dict
from_vehicle_dict(vehicle, provider) ==
    [provider |-> provider,
     brand |-> Get(vehicle, "brand", EmptyStr),
     model |-> Get(vehicle, "model", Get(vehicle, "model_name", EmptyStr)),
     edition_name |-> Get(vehicle, "edition_name", Get(vehicle, "edition", EmptyStr)),
     variant_slug |-> Get(vehicle, "variant_slug", Get(vehicle, "edition_slug", EmptyStr)),
     url |-> Get(vehicle, "url", Get(vehicle, "source_url", EmptyStr)),
     extra_attributes |-> [k \in DOMAIN vehicle \ IdentityFields |-> vehicle[k]]]

\* VehicleFingerprint.unique_key
unique_key(fp) ==
    Join(FilterNonEmpty(<<
        <<fp.provider>>,
        ReplaceSpace(Lower(fp.brand)),
        ReplaceSpace(Lower(fp.model)),
        IF fp.edition_name # EmptyStr THEN ReplaceSpace(Lower(fp.edition_name)) ELSE EmptyStr,
        IF fp.variant_slug # EmptyStr THEN Lower(fp.variant_slug) ELSE EmptyStr >>))

\* ------------------------------------------------------------- inputs
Providers == {"toyota_nl", "suzuki_nl"}

Yaris == [brand |-> <<"T">>, model |-> <<"Y">>, edition_name |-> <<"A">>]
Corolla == [brand |-> <<"T">>, model_name |-> <<"C">>, edition |-> <<"S">>]
Swift == [brand |-> <<"S">>, model |-> <<"S">>]

\* the reason each caller passes with a priority
ReasonFor(priority) ==
    CASE priority = CRITICAL -> "new_vehicle"
      [] priority = HIGH -> "changed"
      [] priority = NORMAL -> "stale"
      [] OTHER -> "manual"

\* the arguments of one add call, with the key the call computes
AddCall(vehicle, provider, priority) ==
    [vehicle |-> vehicle, provider |-> provider, priority |-> priority,
     reason |-> ReasonFor(priority),
     key |-> unique_key(from_vehicle_dict(vehicle, provider))]

\* the add calls the callers make
AddCalls ==
    {AddCall(Yaris, "toyota_nl", NORMAL), AddCall(Yaris, "toyota_nl", CRITICAL),
     AddCall(Corolla, "toyota_nl", CRITICAL), AddCall(Corolla, "toyota_nl", LOW),
     AddCall(Swift, "suzuki_nl", NORMAL)}

\* the add_batch calls the callers make: a provider and the list of vehicles,
\* all with one priority and reason
BatchCalls ==
    {[provider |-> "toyota_nl", calls |-> << >>],
     [provider |-> "toyota_nl",
      calls |-> <<AddCall(Yaris, "toyota_nl", HIGH), AddCall(Corolla, "toyota_nl", HIGH)>>],
     [provider |-> "toyota_nl",
      calls |-> <<AddCall(Corolla, "toyota_nl", NORMAL), AddCall(Corolla, "toyota_nl", NORMAL)>>],
     [provider |-> "suzuki_nl", calls |-> <<AddCall(Swift, "suzuki_nl", HIGH)>>]}

\* the message the driver passes to fail
Messages == {"No price data returned"}

AllKeys == {c.key : c \in AddCalls}

\* ------------------------------------------------------------- state
VARIABLES
    items,      \* ScrapeQueue._items: the live store, in dict (insertion) order
    files,      \* queue_<provider>.json: provider -> NoFile or its 'items' list
    now,        \* the clock datetime.utcnow() reads
    failCalls,  \* history: fail calls made on each live item since it was added
    created,    \* items created so far
    handouts,   \* items handed out so far
    cache,      \* the price cache directory: file name -> NoFile, Unparsable or offers
    detection,  \* the last detect_changes call: its arguments and its outcome
    keyed       \* two payloads with their providers, and their unique_keys once computed

vars == <<items, files, now, failCalls, created, handouts, cache, detection, keyed>>

\* the marker of a missing file: a one-element list that is no list of items
NoFile == <<[missing |-> TRUE]>>

\* the marker of a file json.load cannot parse
Unparsable == <<[unparsable |-> TRUE]>>

\* an entry of a file's 'items' list that QueueItem.model_validate rejects
BadEntry == [invalid |-> TRUE]

\* QueueItem.model_validate(item_data) returns an item
Valid(entry) == "status" \in DOMAIN entry

\* ----------------------------------------------------------- QueueItem
\* QueueItem(fingerprint=..., vehicle_data=..., priority=..., reason=...)
NewItem(c, t) ==
    [key |-> c.key,
     fingerprint |-> from_vehicle_dict(c.vehicle, c.provider),
     vehicle_data |-> c.vehicle,
     priority |-> c.priority,
     status |-> PENDING,
     added_at |-> t,
     attempt_count |-> 0,
     last_error |-> None,
     reason |-> c.reason]

\* mutant of mark_in_progress: the attempt is not counted
mark_in_progress_uncounted(item) == [item EXCEPT !.status = IN_PROGRESS]

\* QueueItem.mark_in_progress
mark_in_progress(item) ==
    [item EXCEPT !.status = IN_PROGRESS, !.attempt_count = item.attempt_count + 1]

\* mutant of mark_failed: the last attempt is compared with > instead of >=
mark_failed_late(item, error) ==
    [item EXCEPT !.last_error = error,
                 !.status = IF item.attempt_count > max_attempts
                            THEN FAILED ELSE PENDING]

\* mutant of mark_failed: a failure forgets the attempts made
mark_failed_reset(item, error) ==
    [item EXCEPT !.last_error = error, !.status = PENDING, !.attempt_count = 0]

\* QueueItem.mark_failed
mark_failed(item, error) ==
    [item EXCEPT !.last_error = error,
                 !.status = IF item.attempt_count >= max_attempts
                            THEN FAILED ELSE PENDING]

\* --------------------------------------------------- the live store
Keys(its) == {its[i].key : i \in DOMAIN its}
IndexOf(its, k) == CHOOSE i \in DOMAIN its : its[i].key = k
ItemOf(its, k) == its[IndexOf(its, k)]
ProviderOf(item) == item.fingerprint.provider

\* del self._items[key]
Remove(its, k) == SelectSeq(its, LAMBDA it : it.key # k)

\* self._items[key] = item: in place for a key the dict holds, appended otherwise
Put(its, item) ==
    IF item.key \in Keys(its)
    THEN [its EXCEPT ![IndexOf(its, item.key)] = item]
    ELSE Append(its, item)

\* the live items of one provider, in dict order
OfProvider(its, p) == SelectSeq(its, LAMBDA it : ProviderOf(it) = p)

\* mutant of _save_queue: every provider's file is written
_save_queue_all(its, fs, provider) ==
    [p \in Providers |-> IF OfProvider(its, p) # << >> THEN OfProvider(its, p) ELSE fs[p]]

\* mutant of _save_queue: only the PENDING items are written
_save_queue_pending(its, fs, provider) ==
    [p \in Providers |->
        IF (provider = None \/ p = provider) /\ OfProvider(its, p) # << >>
        THEN SelectSeq(OfProvider(its, p), LAMBDA it : it.status = PENDING)
        ELSE fs[p]]

\* ScrapeQueue._save_queue(provider): a file is written for each provider
\* that has a live item, only for `provider` when one is given
_save_queue(its, fs, provider) ==
    [p \in Providers |->
        IF (provider = None \/ p = provider) /\ OfProvider(its, p) # << >>
        THEN OfProvider(its, p)
        ELSE fs[p]]

\* mutant of LoadItems: an item loaded starts with no attempts
RECURSIVE LoadItemsFresh(_, _)
LoadItemsFresh(its, entries) ==
    IF entries = << >> \/ ~Valid(Head(entries)) THEN its
    ELSE LET item == Head(entries)
         IN  LoadItemsFresh(
                IF item.status \in {PENDING, IN_PROGRESS}
                THEN Put(its, [item EXCEPT !.status = PENDING, !.attempt_count = 0])
                ELSE its,
                Tail(entries))

\* the body of _load_queue's loop over one file's items: an entry that fails
\* validation raises, the except clause ends the file, and the items stored
\* before it stay in the store
RECURSIVE LoadItems(_, _)
LoadItems(its, entries) ==
    IF entries = << >> \/ ~Valid(Head(entries)) THEN its
    ELSE LET item == Head(entries)
         IN  LoadItems(
                IF item.status \in {PENDING, IN_PROGRESS}
                THEN Put(its, [item EXCEPT !.status = PENDING])
                ELSE its,
                Tail(entries))

\* ScrapeQueue._load_queue: the files in the order glob yields them
RECURSIVE _load_queue(_, _, _)
_load_queue(its, fs, order) ==
    IF order = << >> THEN its
    ELSE _load_queue(
            IF fs[Head(order)] \in {NoFile, Unparsable} THEN its
            ELSE LoadItems(its, fs[Head(order)]),
            fs, Tail(order))

\* the orders in which glob may yield the queue files
GlobOrders == {<<"toyota_nl", "suzuki_nl">>, <<"suzuki_nl", "toyota_nl">>}

\* ScrapeQueue.__init__ on a directory holding the files fs
Reload(fs, order) == _load_queue(<< >>, fs, order)

\* mutant of PendingOf: every item that is not being processed is a candidate
PendingOrFailedOf(its, provider) ==
    SelectSeq(its, LAMBDA it : it.status # IN_PROGRESS
                               /\ (provider = None \/ ProviderOf(it) = provider))

\* mutant of PendingOf: items in progress are candidates too
PendingOrInProgressOf(its, provider) ==
    SelectSeq(its, LAMBDA it : it.status \in {PENDING, IN_PROGRESS}
                               /\ (provider = None \/ ProviderOf(it) = provider))

\* the PENDING items get_next considers, in dict order
PendingOf(its, provider) ==
    SelectSeq(its, LAMBDA it : it.status = PENDING
                               /\ (provider = None \/ ProviderOf(it) = provider))

\* the sort key of get_next: (priority.value, added_at)
SortKeyLess(a, b) ==
    \/ a.priority < b.priority
    \/ a.priority = b.priority /\ a.added_at < b.added_at

\* mutant of FirstSorted: the list is not sorted, its first item is taken
FirstUnsorted(pending) == pending[1]

\* pending.sort(key=...)[0]: a stable sort, so the first item in list order among
\* those with the least key
FirstSorted(pending) ==
    LET i == CHOOSE i \in DOMAIN pending :
                /\ \A j \in DOMAIN pending : ~SortKeyLess(pending[j], pending[i])
                /\ \A j \in 1..(i - 1) : SortKeyLess(pending[i], pending[j])
    IN  pending[i]

\* ScrapeQueue.get_pending_count
get_pending_count(its, provider) == Len(PendingOf(its, provider))

\* ScrapeQueue.get_stats
get_stats(its, provider) ==
    [s \in QueueItemStatus \cup {"total"} |->
        Cardinality({i \in DOMAIN its :
            /\ (provider = None \/ ProviderOf(its[i]) = provider)
            /\ (s = "total" \/ its[i].status = s)})]

\* no payloads under comparison
NotKeyed == [keys |-> << >>]

\* ------------------------------------------------------ ChangeDetector
\* the cache files _load_cached_offers reads
CacheFiles == {"toyota_prices.json", "ayvens_toyota_prices.json", "ayvens_suzuki_prices.json"}

\* a cache directory without files
NoCache == [f \in CacheFiles |-> NoFile]

\* before the first detect_changes call
NoDetection == [run |-> 0, repeated |-> FALSE]

\* ChangeDetector.__init__: the default of freshness_days, in days like the clock
freshness_days == 7

\* the shapes of an offer's scraped_at value
\* an ISO-8601 string without zone, for day t
Naive(t) == [kind |-> "naive", t |-> t]
\* an ISO-8601 string with 'Z' or a numeric UTC offset, for day t
Aware(t) == [kind |-> "aware", t |-> t]
\* a string datetime.fromisoformat rejects
Garbage == [kind |-> "garbage", t |-> 0]
\* the None _get_scraped_at returns
NoTime == [kind |-> "none", t |-> 0]

\* the orders in which a set may be iterated, or a dict may have been filled
Orders(S) == {order \in [1..Cardinality(S) -> S] : \A x \in S : \E i \in DOMAIN order : order[i] = x}

\* the attribute names of the payloads, in the order Python compares strings
NameRank(name) ==
    CASE name = "fuel" -> 1
      [] name = "n" -> 2
      [] name = "scraped_at" -> 3

\* dict.items() of a dict filled in the given order
ItemsIn(d, order) == [i \in DOMAIN order |-> <<order[i], d[order[i]]>>]

\* sort_keys=True: the items by ascending key
SortedItems(pairs) ==
    [i \in DOMAIN pairs |->
        CHOOSE p \in {pairs[j] : j \in DOMAIN pairs} :
            Cardinality({j \in DOMAIN pairs : NameRank(pairs[j][1]) < NameRank(p[1])}) = i - 1]

\* json.dumps(data, sort_keys=True) of fingerprint_hash's data, whose dict
\* 'extra' was filled in the given order
json_dumps(fp, order) ==
    [extra |-> SortedItems(ItemsIn(fp.extra_attributes, order)),
     key |-> unique_key(fp),
     url |-> fp.url]

\* the serialisation of key toyota_nl_t_y_a, no url and the one attribute n
YarisWithN(n) ==
    [extra |-> << <<"n", n>> >>,
     key |-> <<"toyota_nl", "_", "t", "_", "y", "_", "a">>,
     url |-> EmptyStr]

\* hashlib.md5(...).hexdigest()[:12]: the digest of the two serialisations
\* tabulated here is the one md5 computes; every other serialisation of the
\* model stands for its own digest
md5_12(serialised) ==
    IF serialised \in {YarisWithN("8806387"), YarisWithN("15783772")}
    THEN <<"c8ec95e6b437">>
    ELSE <<"md5", serialised>>

\* fingerprint_hash of a fingerprint whose extra_attributes were filled in the
\* given order
hash_in_order(fp, order) == md5_12(json_dumps(fp, order))

\* VehicleFingerprint.fingerprint_hash
fingerprint_hash(fp) ==
    hash_in_order(fp, CHOOSE order \in Orders(DOMAIN fp.extra_attributes) : TRUE)

\* the loop of _load_cache_file over the offers of one file
RECURSIVE LoadOffers(_, _, _)
LoadOffers(cached, offers, provider) ==
    IF offers = << >> THEN cached
    ELSE LET fp == from_vehicle_dict(Head(offers), provider)
         IN  LoadOffers(
                Put(cached, [key |-> unique_key(fp), fingerprint |-> fp,
                             offer |-> Head(offers)]),
                Tail(offers), provider)

\* ChangeDetector._load_cache_file
_load_cache_file(cch, file, provider, cached) ==
    IF file \notin DOMAIN cch \/ cch[file] \in {NoFile, Unparsable} THEN cached
    ELSE LoadOffers(cached, cch[file], provider)

\* ChangeDetector._load_cached_offers: the main file of the provider, then the
\* brand files of a multi-brand provider
_load_cached_offers(cch, provider) ==
    LET cache_file ==
            CASE provider = "toyota_nl" -> "toyota_prices.json"
              [] provider = "suzuki_nl" -> "suzuki_prices.json"
              [] provider = "ayvens_nl" -> "ayvens_toyota_prices.json"
              [] provider = "leasys_nl" -> "leasys_toyota_prices.json"
              [] OTHER -> None
        main == IF cache_file # None
                THEN _load_cache_file(cch, cache_file, provider, << >>)
                ELSE << >>
    IN  CASE provider = "ayvens_nl" ->
               _load_cache_file(cch, "ayvens_suzuki_prices.json", provider,
                   _load_cache_file(cch, "ayvens_toyota_prices.json", provider, main))
          [] provider = "leasys_nl" ->
               _load_cache_file(cch, "leasys_suzuki_prices.json", provider,
                   _load_cache_file(cch, "leasys_toyota_prices.json", provider, main))
          [] OTHER -> main

\* ChangeDetector._get_scraped_at
_get_scraped_at(offer) ==
    IF "scraped_at" \notin DOMAIN offer THEN NoTime
    ELSE IF offer.scraped_at.kind \in {"naive", "aware"} THEN offer.scraped_at
         ELSE NoTime

\* the brand filter of detect_changes: 'if brand and ...' lets every vehicle
\* pass when brand is None or empty, both written EmptyStr here
BrandMatches(value, brand) == brand = EmptyStr \/ Lower(value) = Lower(brand)

\* detect_changes, lines 503-510: overview_by_key after the loop
RECURSIVE OverviewByKey(_, _, _, _)
OverviewByKey(by_key, overview_vehicles, provider, brand) ==
    IF overview_vehicles = << >> THEN by_key
    ELSE LET vehicle == Head(overview_vehicles)
             fp == from_vehicle_dict(vehicle, provider)
         IN  OverviewByKey(
                IF BrandMatches(Get(vehicle, "brand", EmptyStr), brand)
                THEN Put(by_key, [key |-> unique_key(fp), fingerprint |-> fp])
                ELSE by_key,
                Tail(overview_vehicles), provider, brand)

\* detect_changes, lines 519-536: the bucket of one overview fingerprint, or
\* "raise" where now - scraped_at mixes a naive and an aware datetime
Classify(fp, cached, t) ==
    IF unique_key(fp) \notin Keys(cached) THEN "new"
    ELSE LET cached_entry == ItemOf(cached, unique_key(fp))
         IN  IF fingerprint_hash(fp) # fingerprint_hash(cached_entry.fingerprint)
             THEN "changed"
             ELSE LET scraped_at == _get_scraped_at(cached_entry.offer)
                  IN  IF scraped_at = NoTime THEN "unchanged"
                      ELSE IF scraped_at.kind = "aware" THEN "raise"
                      ELSE IF t - scraped_at.t > freshness_days THEN "stale"
                      ELSE "unchanged"

\* the marker of a call that raised
Raised == [raised |-> TRUE]

\* ChangeDetector.detect_changes on the cache cch at time t; order and gone are
\* the orders in which the two set loops run
detect_changes(cch, overview_vehicles, provider, brand, t, order, gone) ==
    LET cached == _load_cached_offers(cch, provider)
        by_key == OverviewByKey(<< >>, overview_vehicles, provider, brand)
        fps == [i \in DOMAIN order |-> ItemOf(by_key, order[i]).fingerprint]
        Bucket(name) == SelectSeq(fps, LAMBDA fp : Classify(fp, cached, t) = name)
        cached_fps == [i \in DOMAIN gone |-> ItemOf(cached, gone[i]).fingerprint]
    IN  IF \E i \in DOMAIN fps : Classify(fps[i], cached, t) = "raise" THEN Raised
        ELSE [raised |-> FALSE,
              provider |-> provider,
              new_vehicles |-> Bucket("new"),
              changed_vehicles |-> Bucket("changed"),
              stale_vehicles |-> Bucket("stale"),
              unchanged_vehicles |-> Bucket("unchanged"),
              removed_vehicles |->
                  SelectSeq(cached_fps, LAMBDA fp : BrandMatches(fp.brand, brand))]

\* ChangeDetectionResult.needs_scraping
needs_scraping(result) ==
    result.new_vehicles \o result.changed_vehicles \o result.stale_vehicles

\* ------------------------------------------------------------- actions
\* the history of fail calls follows the live store: a key that leaves it starts anew
Forget(fc, its) == [k \in AllKeys |-> IF k \in Keys(its) THEN fc[k] ELSE 0]

Init ==
    /\ files = [p \in Providers |-> NoFile]
    /\ items = << >>
    /\ now = 0
    /\ failCalls = [k \in AllKeys |-> 0]
    /\ created = 0
    /\ handouts = 0
    /\ cache = NoCache
    /\ detection = NoDetection
    /\ keyed = NotKeyed

\* time passes between calls
Tick ==
    /\ now < MaxClock
    /\ now' = now + 1
    /\ UNCHANGED <<items, files, failCalls, created, handouts, cache, detection, keyed>>

\* mutant of Add: adding a key again puts its item back to PENDING
AddRequeues(c) ==
    /\ IF c.key \in Keys(items)
       THEN LET existing == ItemOf(items, c.key)
            IN  /\ items' = Put(items, [existing EXCEPT
                                !.status = PENDING,
                                !.priority = IF c.priority < existing.priority
                                             THEN c.priority ELSE existing.priority])
                /\ files' = files
                /\ created' = created
       ELSE /\ created < MaxAdds
            /\ created' = created + 1
            /\ items' = Put(items, NewItem(c, now))
            /\ files' = _save_queue(items', files, c.provider)
    /\ UNCHANGED <<now, failCalls, handouts, cache, detection, keyed>>

\* mutant of Add: adding a key again takes the new priority, whatever it is
AddOverwrites(c) ==
    /\ IF c.key \in Keys(items)
       THEN /\ items' = Put(items, [ItemOf(items, c.key) EXCEPT
                                        !.priority = c.priority, !.reason = c.reason])
            /\ files' = files
            /\ created' = created
       ELSE /\ created < MaxAdds
            /\ created' = created + 1
            /\ items' = Put(items, NewItem(c, now))
            /\ files' = _save_queue(items', files, c.provider)
    /\ UNCHANGED <<now, failCalls, handouts, cache, detection, keyed>>

\* ScrapeQueue.add
Add(c) ==
    /\ IF c.key \in Keys(items)
       THEN LET existing == ItemOf(items, c.key)
            IN  /\ items' = IF c.priority < existing.priority
                            THEN Put(items, [existing EXCEPT !.priority = c.priority,
                                                             !.reason = c.reason])
                            ELSE items
                /\ files' = files
                /\ created' = created
       ELSE /\ created < MaxAdds
            /\ created' = created + 1
            /\ items' = Put(items, NewItem(c, now))
            /\ files' = _save_queue(items', files, c.provider)
    /\ UNCHANGED <<now, failCalls, handouts, cache, detection, keyed>>

\* mutant of BatchInsert: a vehicle of the batch replaces the item of its key
RECURSIVE BatchInsertReplace(_, _, _)
BatchInsertReplace(its, calls, t) ==
    IF calls = << >> THEN its
    ELSE BatchInsertReplace(Put(its, NewItem(Head(calls), t)), Tail(calls), t)

\* mutant of BatchInsert: a key the store holds takes a more urgent batch priority
RECURSIVE BatchInsertUpsert(_, _, _)
BatchInsertUpsert(its, calls, t) ==
    IF calls = << >> THEN its
    ELSE BatchInsertUpsert(
            IF Head(calls).key \notin Keys(its) THEN Put(its, NewItem(Head(calls), t))
            ELSE IF Head(calls).priority < ItemOf(its, Head(calls).key).priority
                 THEN Put(its, [ItemOf(its, Head(calls).key) EXCEPT
                                    !.priority = Head(calls).priority])
                 ELSE its,
            Tail(calls), t)

\* the loop of add_batch: the store after the vehicles, in list order
RECURSIVE BatchInsert(_, _, _)
BatchInsert(its, calls, t) ==
    IF calls = << >> THEN its
    ELSE BatchInsert(
            IF Head(calls).key \notin Keys(its) THEN Put(its, NewItem(Head(calls), t)) ELSE its,
            Tail(calls), t)

\* mutant of AddBatch: the batch is not saved
AddBatchUnsaved(b) ==
    LET after == BatchInsert(items, b.calls, now)
        added == Len(after) - Len(items)
    IN  /\ created + added <= MaxAdds
        /\ created' = created + added
        /\ items' = after
        /\ files' = files
        /\ UNCHANGED <<now, failCalls, handouts, cache, detection, keyed>>

\* ScrapeQueue.add_batch
AddBatch(b) ==
    LET after == BatchInsert(items, b.calls, now)
        added == Len(after) - Len(items)
    IN  /\ created + added <= MaxAdds
        /\ created' = created + added
        /\ items' = after
        /\ files' = IF added > 0 THEN _save_queue(after, files, b.provider) ELSE files
        /\ UNCHANGED <<now, failCalls, handouts, cache, detection, keyed>>

\* ScrapeQueue.get_next
GetNext(provider) ==
    LET pending == PendingOf(items, provider)
    IN  /\ IF pending = << >>
           THEN UNCHANGED <<items, files, handouts>>
           ELSE LET item == FirstSorted(pending)
                IN  /\ handouts < MaxHandouts
                    /\ handouts' = handouts + 1
                    /\ items' = Put(items, mark_in_progress(item))
                    /\ files' = _save_queue(items', files, ProviderOf(item))
        /\ UNCHANGED <<now, failCalls, created, cache, detection, keyed>>

\* ScrapeQueue.complete, called by the driver on an item get_next handed out
Complete(key) ==
    /\ key \in Keys(items)
    /\ ItemOf(items, key).status = IN_PROGRESS
    /\ items' = Remove(items, key)
    /\ files' = _save_queue(items', files, ProviderOf(ItemOf(items, key)))
    /\ failCalls' = Forget(failCalls, items')
    /\ UNCHANGED <<now, created, handouts, cache, detection, keyed>>

\* ScrapeQueue.fail, called by the driver on an item get_next handed out
Fail(key, error) ==
    /\ key \in Keys(items)
    /\ ItemOf(items, key).status = IN_PROGRESS
    /\ items' = Put(items, mark_failed(ItemOf(items, key), error))
    /\ files' = _save_queue(items', files, ProviderOf(ItemOf(items, key)))
    /\ failCalls' = [failCalls EXCEPT ![key] = @ + 1]
    /\ UNCHANGED <<now, created, handouts, cache, detection, keyed>>

\* mutant of Clear: the snapshot files are left in place
ClearKeepsFile(provider) ==
    /\ items' = IF provider # None
                THEN SelectSeq(items, LAMBDA it : ProviderOf(it) # provider)
                ELSE << >>
    /\ files' = files
    /\ failCalls' = Forget(failCalls, items')
    /\ UNCHANGED <<now, created, handouts, cache, detection, keyed>>

\* ScrapeQueue.clear
Clear(provider) ==
    /\ items' = IF provider # None
                THEN SelectSeq(items, LAMBDA it : ProviderOf(it) # provider)
                ELSE << >>
    /\ files' = [p \in Providers |->
                    IF provider = None \/ p = provider THEN NoFile ELSE files[p]]
    /\ failCalls' = Forget(failCalls, items')
    /\ UNCHANGED <<now, created, handouts, cache, detection, keyed>>

\* the process stops and a new ScrapeQueue is constructed on the same directory
Restart(order) ==
    /\ items' = Reload(files, order)
    /\ failCalls' = Forget(failCalls, items')
    /\ UNCHANGED <<files, now, created, handouts, cache, detection, keyed>>

Next ==
    \/ Tick
    \/ \E c \in AddCalls : Add(c)
    \/ \E b \in BatchCalls : AddBatch(b)
    \/ \E p \in Providers \cup {None} : GetNext(p)
    \/ \E k \in AllKeys : Complete(k)
    \/ \E k \in AllKeys : \E m \in Messages : Fail(k, m)
    \/ \E p \in Providers \cup {None} : Clear(p)
    \/ \E o \in GlobOrders : Restart(o)

Spec == Init /\ [][Next]_vars

\* ------------------------------ the constructor on a directory as found
\* an item as a queue file holds it
StoredItem(c, status, attempts) ==
    [NewItem(c, 0) EXCEPT !.status = status, !.attempt_count = attempts]

\* the entries the queue file of a provider may hold
FileEntries(p) ==
    IF p = "toyota_nl"
    THEN {StoredItem(AddCall(Yaris, "toyota_nl", NORMAL), PENDING, 0),
          StoredItem(AddCall(Corolla, "toyota_nl", CRITICAL), IN_PROGRESS, 1),
          StoredItem(AddCall(Yaris, "toyota_nl", NORMAL), FAILED, max_attempts),
          BadEntry}
    ELSE {StoredItem(AddCall(Swift, "suzuki_nl", NORMAL), PENDING, 0), BadEntry}

\* what may be found at the path of a provider's queue file
FileContents(p) ==
    {NoFile, Unparsable} \cup UNION {[1..n -> FileEntries(p)] : n \in 0..MaxEntries}

Directories ==
    {d \in [Providers -> UNION {FileContents(p) : p \in Providers}] :
        \A p \in Providers : d[p] \in FileContents(p)}

LoadInit ==
    /\ cache = NoCache
    /\ detection = NoDetection
    /\ keyed = NotKeyed
    /\ files \in Directories
    /\ items = << >>
    /\ now = 0
    /\ failCalls = [k \in AllKeys |-> 0]
    /\ created = 0
    /\ handouts = 0

LoadNext == \E o \in GlobOrders : Restart(o)

LoadSpec == LoadInit /\ [][LoadNext]_vars

\* ------------------------------------------------- detect_changes runs
\* a cached offer: the vehicle's fields and the time of its full scrape
Offer(vehicle, stamp) == vehicle @@ [scraped_at |-> stamp]

Stamps == {Naive(0), Aware(0), Garbage}

ToyotaCache(offers) == [NoCache EXCEPT !["toyota_prices.json"] = offers]
AyvensCache(toyota, suzuki) ==
    [NoCache EXCEPT !["ayvens_toyota_prices.json"] = toyota,
                    !["ayvens_suzuki_prices.json"] = suzuki]

\* the cache directories a run may find
Caches ==
    {NoCache, ToyotaCache(Unparsable), ToyotaCache(<<Yaris>>),
     ToyotaCache(<<Offer(Yaris, Naive(0)), Offer(Corolla, Naive(0))>>),
     AyvensCache(<<Offer(Yaris, Naive(0))>>, <<Offer(Swift, Naive(0))>>),
     AyvensCache(NoFile, <<Offer(Swift, Naive(0))>>)}
    \cup {ToyotaCache(<<Offer(Yaris, s)>>) : s \in Stamps}

\* the overview scans: payloads as the overview scraper yields them, and payloads
\* that carry the fields of the cached offer
Overviews ==
    {<< >>, <<Yaris>>, <<Corolla>>, <<Swift>>,
     <<Offer(Yaris, Naive(0)), Corolla>>, <<Offer(Yaris, Naive(0)), Swift>>,
     <<Yaris, Swift>>, <<Yaris, Offer(Yaris, Naive(0))>>}
    \cup {<<Offer(Yaris, s)>> : s \in Stamps}

\* the detect_changes calls: overview, provider and brand filter
DetectCalls ==
    {[overview_vehicles |-> o, provider |-> pb[1], brand |-> pb[2]] :
        o \in Overviews,
        pb \in {<<"toyota_nl", EmptyStr>>, <<"ayvens_nl", EmptyStr>>,
                <<"ayvens_nl", <<"t">>>>}}

\* the days on which a run takes place
DetectClocks == {freshness_days, freshness_days + 1, freshness_days + 3}

\* the keys the two set loops of detect_changes run over
OverviewKeys(c) == Keys(OverviewByKey(<< >>, c.overview_vehicles, c.provider, c.brand))
CachedKeys(cch, c) == Keys(_load_cached_offers(cch, c.provider))

\* history: the call repeats the arguments and the clock of the call before it
Repeats(c) == detection.run >= 1 /\ detection.call = c /\ detection.clock = now

\* an offer as a detector that records its scan on day t would leave it
Restamp(offer, t) ==
    IF "scraped_at" \in DOMAIN offer THEN [offer EXCEPT !.scraped_at = Naive(t)] ELSE offer

\* mutant of Detect: the run stamps the cached offers with the day of the scan
DetectAndStamp(c) ==
    /\ detection.run < MaxRuns
    /\ \E order \in Orders(OverviewKeys(c)) :
       \E gone \in Orders(CachedKeys(cache, c) \ OverviewKeys(c)) :
          detection' = [run |-> detection.run + 1,
                        repeated |-> Repeats(c),
                        call |-> c,
                        clock |-> now,
                        result |-> detect_changes(cache, c.overview_vehicles, c.provider,
                                                  c.brand, now, order, gone)]
    /\ cache' = [f \in CacheFiles |->
                    IF cache[f] \in {NoFile, Unparsable} THEN cache[f]
                    ELSE [i \in DOMAIN cache[f] |-> Restamp(cache[f][i], now)]]
    /\ UNCHANGED <<items, files, now, failCalls, created, handouts, keyed>>

\* one call of ChangeDetector.detect_changes
Detect(c) ==
    /\ detection.run < MaxRuns
    /\ \E order \in Orders(OverviewKeys(c)) :
       \E gone \in Orders(CachedKeys(cache, c) \ OverviewKeys(c)) :
          detection' = [run |-> detection.run + 1,
                        repeated |-> Repeats(c),
                        call |-> c,
                        clock |-> now,
                        result |-> detect_changes(cache, c.overview_vehicles, c.provider,
                                                  c.brand, now, order, gone)]
    /\ UNCHANGED <<items, files, now, failCalls, created, handouts, cache, keyed>>

DetectInit ==
    /\ keyed = NotKeyed
    /\ cache \in Caches
    /\ now \in DetectClocks
    /\ detection = NoDetection
    /\ files = [p \in Providers |-> NoFile]
    /\ items = << >>
    /\ failCalls = [k \in AllKeys |-> 0]
    /\ created = 0
    /\ handouts = 0

DetectNext == \E c \in DetectCalls : Detect(c)

DetectSpec == DetectInit /\ [][DetectNext]_vars

\* ----------------------------------------------- unique_key of two payloads
\* the values of the identity fields: case, space, hyphen, underscore, empty
KeyPayloads ==
    [brand : {<<"A">>, <<"a">>, <<"a", " ", "s">>, <<"a", "-", "s">>, <<"a", "_", "s">>},
     model : {EmptyStr, <<"s">>},
     edition_name : {EmptyStr, <<"s">>},
     variant_slug : {EmptyStr, <<"S">>}]

\* a payload and the provider it is fingerprinted for
KeyInputs == [vehicle : KeyPayloads, provider : Providers]

\* VehicleFingerprint.from_vehicle_dict(...).unique_key for both payloads
ComputeKeys ==
    /\ keyed.keys = << >>
    /\ keyed' = [keyed EXCEPT !.keys =
                    <<unique_key(from_vehicle_dict(keyed.a.vehicle, keyed.a.provider)),
                      unique_key(from_vehicle_dict(keyed.b.vehicle, keyed.b.provider))>>]
    /\ UNCHANGED <<items, files, now, failCalls, created, handouts, cache, detection>>

KeyInit ==
    /\ keyed \in [a : KeyInputs, b : KeyInputs, keys : {<< >>}]
    /\ cache = NoCache
    /\ detection = NoDetection
    /\ files = [p \in Providers |-> NoFile]
    /\ items = << >>
    /\ now = 0
    /\ failCalls = [k \in AllKeys |-> 0]
    /\ created = 0
    /\ handouts = 0

KeyNext == ComputeKeys

KeySpec == KeyInit /\ [][KeyNext]_vars

\* ------------------------------------------- fingerprint_hash of two payloads
\* payloads with discovery attributes and a url
HashPayloads ==
    {base @@ extra @@ link :
        base \in {Yaris, Corolla},
        extra \in {<< >>} \cup [n : {"1", "8806387", "15783772"}] \cup [fuel : {"ev", "gas"}]
                  \cup [n : {"1", "8806387", "15783772"}, fuel : {"ev", "gas"}],
        link \in {<< >>, [url |-> <<"u">>]}}

\* a payload, the provider, and the order in which its attributes were inserted
HashInputs ==
    {[vehicle |-> v, provider |-> "toyota_nl", order |-> o] :
        v \in HashPayloads, o \in Orders({"fuel", "n"})}

\* the insertion order of the attributes the payload has
OrderOf(input) ==
    SelectSeq(input.order,
              LAMBDA name : name \in DOMAIN from_vehicle_dict(input.vehicle,
                                                              input.provider).extra_attributes)

\* VehicleFingerprint.from_vehicle_dict(...).fingerprint_hash for both payloads
ComputeHashes ==
    /\ keyed.keys = << >>
    /\ keyed' = [keyed EXCEPT
                    !.keys = <<unique_key(from_vehicle_dict(keyed.a.vehicle, keyed.a.provider)),
                               unique_key(from_vehicle_dict(keyed.b.vehicle, keyed.b.provider))>>,
                    !.hashes = <<hash_in_order(from_vehicle_dict(keyed.a.vehicle, keyed.a.provider),
                                               OrderOf(keyed.a)),
                                 hash_in_order(from_vehicle_dict(keyed.b.vehicle, keyed.b.provider),
                                               OrderOf(keyed.b))>>]
    /\ UNCHANGED <<items, files, now, failCalls, created, handouts, cache, detection>>

HashInit ==
    /\ keyed \in [a : HashInputs, b : HashInputs, keys : {<< >>}, hashes : {<< >>}]
    /\ cache = NoCache
    /\ detection = NoDetection
    /\ files = [p \in Providers |-> NoFile]
    /\ items = << >>
    /\ now = 0
    /\ failCalls = [k \in AllKeys |-> 0]
    /\ created = 0
    /\ handouts = 0

HashNext == ComputeHashes

HashSpec == HashInit /\ [][HashNext]_vars

\* ------------------------------ build_queue: detection, queue and driver
\* ScrapeQueue.add as a function of the queue q (live store and files)
add(q, c, t) ==
    IF c.key \in Keys(q.items)
    THEN LET existing == ItemOf(q.items, c.key)
         IN  [q EXCEPT !.items = IF c.priority < existing.priority
                                 THEN Put(q.items, [existing EXCEPT !.priority = c.priority,
                                                                    !.reason = c.reason])
                                 ELSE q.items]
    ELSE LET its == Put(q.items, NewItem(c, t))
         IN  [items |-> its, files |-> _save_queue(its, q.files, c.provider)]

\* vehicles_by_key of create_queue_from_changes: every overview payload under
\* its key, a later payload of a key replacing the earlier one
RECURSIVE VehiclesByKey(_, _, _)
VehiclesByKey(by_key, overview_vehicles, provider) ==
    IF overview_vehicles = << >> THEN by_key
    ELSE VehiclesByKey(
            Put(by_key, [key |-> unique_key(from_vehicle_dict(Head(overview_vehicles), provider)),
                         vehicle |-> Head(overview_vehicles)]),
            Tail(overview_vehicles), provider)

\* one loop of create_queue_from_changes: queue.add for each fingerprint of the
\* bucket whose key the overview holds
RECURSIVE AddBucket(_, _, _, _, _, _)
AddBucket(q, fps, by_key, provider, priority, t) ==
    IF fps = << >> THEN q
    ELSE AddBucket(
            IF unique_key(Head(fps)) \in Keys(by_key)
            THEN add(q, AddCall(ItemOf(by_key, unique_key(Head(fps))).vehicle,
                                provider, priority), t)
            ELSE q,
            Tail(fps), by_key, provider, priority, t)

\* mutant of create_queue_from_changes: every bucket is added as NORMAL
create_queue_flat(fs, order, result, overview_vehicles, provider, t) ==
    AddBucket([items |-> Reload(fs, order), files |-> fs], needs_scraping(result),
              VehiclesByKey(<< >>, overview_vehicles, provider), provider, NORMAL, t)

\* ChangeDetector.create_queue_from_changes: ScrapeQueue() on the default
\* directory holding the files fs, then the three loops
create_queue_from_changes(fs, order, result, overview_vehicles, provider, t) ==
    LET by_key == VehiclesByKey(<< >>, overview_vehicles, provider)
        loaded == [items |-> Reload(fs, order), files |-> fs]
        with_new == AddBucket(loaded, result.new_vehicles, by_key, provider, CRITICAL, t)
        with_changed == AddBucket(with_new, result.changed_vehicles, by_key, provider, HIGH, t)
    IN  AddBucket(with_changed, result.stale_vehicles, by_key, provider, NORMAL, t)

\* what the default queue directory may hold when build_queue starts
PlanDirectories ==
    {[p \in Providers |-> NoFile],
     [p \in Providers |-> IF p = "toyota_nl"
                          THEN <<StoredItem(AddCall(Yaris, "toyota_nl", CRITICAL), IN_PROGRESS, 1)>>
                          ELSE NoFile],
     [p \in Providers |-> IF p = "toyota_nl"
                          THEN <<StoredItem(AddCall(Corolla, "toyota_nl", LOW), PENDING, 0)>>
                          ELSE NoFile]}

\* the price caches build_queue may find
PlanCaches ==
    {NoCache, ToyotaCache(<<Offer(Yaris, Naive(0))>>),
     ToyotaCache(<<Offer(Yaris, Naive(0)), Offer(Corolla, Naive(0))>>)}

\* the overview scans of build_queue for provider toyota_nl
PlanCalls ==
    {[overview_vehicles |-> o, provider |-> "toyota_nl", brand |-> EmptyStr] :
        o \in {<<Yaris, Corolla>>, <<Corolla>>, <<Offer(Yaris, Naive(0)), Corolla>>,
                <<Offer(Corolla, Naive(0)), Yaris>>, <<Offer(Yaris, Naive(0))>>}}

\* BaseScraper.build_queue, lines 380-381: the overview scan is classified
PlanDetect(c) ==
    /\ "loaded" \notin DOMAIN keyed
    /\ detection.run = 0
    /\ Detect(c)

\* BaseScraper.build_queue, line 385: the queue is created from the result of
\* the detection, with the overview and the provider of that call; keyed
\* records the items the constructor loaded
CreateQueue(order) ==
    /\ detection.run = 1
    /\ ~detection.result.raised
    /\ "loaded" \notin DOMAIN keyed
    /\ LET q == create_queue_from_changes(files, order, detection.result,
                                          detection.call.overview_vehicles,
                                          detection.call.provider, now)
       IN  /\ items' = q.items
           /\ files' = q.files
    /\ keyed' = [keys |-> << >>, loaded |-> Reload(files, order)]
    /\ UNCHANGED <<now, failCalls, created, handouts, cache, detection>>

PlanInit ==
    /\ keyed = NotKeyed
    /\ cache \in PlanCaches
    /\ now \in {freshness_days, freshness_days + 1}
    /\ detection = NoDetection
    /\ files \in PlanDirectories
    /\ items = << >>
    /\ failCalls = [k \in AllKeys |-> 0]
    /\ created = 0
    /\ handouts = 0

\* build_queue, then the driver on the queue it returned
PlanNext ==
    \/ \E c \in PlanCalls : PlanDetect(c)
    \/ \E order \in GlobOrders : CreateQueue(order)
    \/ GetNext("toyota_nl")
    \/ \E k \in AllKeys : Complete(k)
    \/ \E k \in AllKeys, error \in Messages : Fail(k, error)

PlanSpec == PlanInit /\ [][PlanNext]_vars

\* ------------------------------------------- process_queue: the driver loop
\* the provider of the scraper that runs process_queue
DriverProvider == "toyota_nl"

\* the queues process_queue may be given: each vehicle absent or live in some
\* status, with the attempts made before
DriveQueues ==
    {y \o c \o w :
        y \in {<< >>} \cup
              {<<StoredItem(AddCall(Yaris, "toyota_nl", NORMAL), PENDING, n)>> : n \in 0..4} \cup
              {<<StoredItem(AddCall(Yaris, "toyota_nl", NORMAL), FAILED, max_attempts)>>,
               <<StoredItem(AddCall(Yaris, "toyota_nl", NORMAL), IN_PROGRESS, 1)>>},
        c \in {<< >>, <<StoredItem(AddCall(Corolla, "toyota_nl", CRITICAL), PENDING, 0)>>,
               <<StoredItem(AddCall(Corolla, "toyota_nl", LOW), PENDING, 2)>>},
        w \in {<< >>, <<StoredItem(AddCall(Swift, "suzuki_nl", NORMAL), PENDING, 0)>>,
               <<StoredItem(AddCall(Swift, "suzuki_nl", NORMAL), IN_PROGRESS, 1)>>}}

\* the driver at the top of its loop, with the PENDING keys of its provider
StartOfLoop(its) ==
    [keys |-> << >>, pc |-> "get_next", item |-> EmptyStr,
     start |-> Keys(PendingOf(its, DriverProvider))]

\* process_queue, lines 426-430: get_next(provider), and the loop ends on None
DriverGetNext ==
    /\ keyed.pc = "get_next"
    /\ LET pending == PendingOf(items, DriverProvider)
       IN  IF pending = << >>
           THEN /\ keyed' = [keyed EXCEPT !.pc = "done"]
                /\ UNCHANGED <<items, files>>
           ELSE LET item == FirstSorted(pending)
                IN  /\ items' = Put(items, mark_in_progress(item))
                    /\ files' = _save_queue(items', files, ProviderOf(item))
                    /\ keyed' = [keyed EXCEPT !.pc = "scrape", !.item = item.key]
    /\ UNCHANGED <<now, failCalls, created, handouts, cache, detection>>

\* process_queue, lines 442-446: the scrape returned an offer
DriverComplete ==
    /\ keyed.pc = "scrape"
    /\ items' = Remove(items, keyed.item)
    /\ files' = _save_queue(items', files, ProviderOf(ItemOf(items, keyed.item)))
    /\ keyed' = [keyed EXCEPT !.pc = "get_next", !.item = EmptyStr]
    /\ UNCHANGED <<now, failCalls, created, handouts, cache, detection>>

\* process_queue, lines 447-452: the scrape returned nothing or raised
DriverFail(error) ==
    /\ keyed.pc = "scrape"
    /\ items' = Put(items, mark_failed(ItemOf(items, keyed.item), error))
    /\ files' = _save_queue(items', files, ProviderOf(ItemOf(items, keyed.item)))
    /\ keyed' = [keyed EXCEPT !.pc = "get_next", !.item = EmptyStr]
    /\ UNCHANGED <<now, failCalls, created, handouts, cache, detection>>

DriveInit ==
    /\ items \in DriveQueues
    /\ files = _save_queue(items, [p \in Providers |-> NoFile], None)
    /\ keyed = StartOfLoop(items)
    /\ now = 0
    /\ failCalls = [k \in AllKeys |-> 0]
    /\ created = 0
    /\ handouts = 0
    /\ cache = NoCache
    /\ detection = NoDetection

DriveNext ==
    \/ DriverGetNext
    \/ DriverComplete
    \/ \E error \in Messages : DriverFail(error)

\* the driver is one sequential loop and every scrape_vehicle_prices call
\* returns or raises: each of its steps is taken once it is due
DriveSpec ==
    /\ DriveInit
    /\ [][DriveNext]_vars
    /\ WF_vars(DriverGetNext)
    /\ WF_vars(DriverComplete \/ \E error \in Messages : DriverFail(error))

\* ------------------------------------- add and add_batch of upstream payloads
\* a payload value that is None (JSON null)
Null == <<None>>

\* the str fields of VehicleFingerprint
StrFields == {"brand", "model", "edition_name", "variant_slug", "url"}

\* pydantic's validation in VehicleFingerprint(...): a str field takes no None
Validates(fp) == \A f \in StrFields : fp[f] # Null

\* upstream payloads: each identity field present, missing or null
UpstreamPayloads ==
    {b @@ m @@ e @@ u :
        b \in {<< >>, [brand |-> <<"T">>], [brand |-> Null]},
        m \in {<< >>, [model |-> <<"Y">>], [model_name |-> <<"Y">>], [model |-> Null],
                [model |-> Null, model_name |-> <<"Y">>]},
        e \in {<< >>, [edition_name |-> <<"A">>], [edition |-> Null]},
        u \in {<< >>, [source_url |-> <<"u">>], [url |-> Null]}}

UpstreamCalls == {AddCall(v, "toyota_nl", p) : v \in UpstreamPayloads, p \in {CRITICAL, NORMAL}}

UpstreamBatches ==
    {[provider |-> "toyota_nl", calls |-> <<AddCall(v, "toyota_nl", HIGH),
                                           AddCall(w, "toyota_nl", HIGH)>>] :
        v \in {Yaris, [brand |-> Null, model |-> <<"Y">>]},
        w \in {Corolla, [model |-> <<"C">>], [brand |-> <<"T">>, model |-> Null]}}

ValidationError == [keys |-> << >>, raised |-> TRUE]
NoError == [keys |-> << >>, raised |-> FALSE]

\* ScrapeQueue.add of an upstream payload: the fingerprint is built first, and
\* its ValidationError leaves the call before the store is touched; the
\* exception ends the caller's run
AddPayload(c) ==
    /\ ~keyed.raised
    /\ IF Validates(from_vehicle_dict(c.vehicle, c.provider))
       THEN Add(c)
       ELSE /\ keyed' = ValidationError
            /\ UNCHANGED <<items, files, now, failCalls, created, handouts, cache, detection>>

\* the vehicles of a batch before the first one whose fingerprint is rejected
RECURSIVE ValidPrefix(_)
ValidPrefix(calls) ==
    IF calls = << >> THEN << >>
    ELSE IF Validates(from_vehicle_dict(Head(calls).vehicle, Head(calls).provider))
         THEN <<Head(calls)>> \o ValidPrefix(Tail(calls))
         ELSE << >>

\* ScrapeQueue.add_batch of upstream payloads: a ValidationError leaves the loop
\* with the vehicles before it in the store and nothing saved
AddBatchPayloads(b) ==
    /\ ~keyed.raised
    /\ IF ValidPrefix(b.calls) = b.calls
       THEN AddBatch(b)
       ELSE LET after == BatchInsert(items, ValidPrefix(b.calls), now)
                added == Len(after) - Len(items)
            IN  /\ created + added <= MaxAdds
                /\ created' = created + added
                /\ items' = after
                /\ keyed' = ValidationError
                /\ UNCHANGED <<files, now, failCalls, handouts, cache, detection>>

UpstreamInit ==
    /\ \E its \in {<< >>, <<NewItem(AddCall(Swift, "suzuki_nl", NORMAL), 0)>>} :
            /\ items = its
            /\ files = _save_queue(its, [p \in Providers |-> NoFile], "suzuki_nl")
            /\ created = Len(its)
    /\ now = 0
    /\ failCalls = [k \in AllKeys |-> 0]
    /\ handouts = 0
    /\ cache = NoCache
    /\ detection = NoDetection
    /\ keyed = NoError

UpstreamNext ==
    \/ \E c \in UpstreamCalls : AddPayload(c)
    \/ \E b \in UpstreamBatches : AddBatchPayloads(b)

UpstreamSpec == UpstreamInit /\ [][UpstreamNext]_vars

\* ------------------------------------------------------------- claims
AnyProvider == Providers \cup {None}

Matches(item, provider) == provider = None \/ ProviderOf(item) = provider

\* the step hands the live item with key k out: PENDING before, IN_PROGRESS after
HandedOut(k) ==
    /\ k \in Keys(items) /\ k \in Keys(items')
    /\ ItemOf(items, k).status = PENDING
    /\ ItemOf(items', k).status = IN_PROGRESS

\* the pair (priority value, added_at) of a is less than that of b
PairLess(a, b) ==
    \/ a.priority < b.priority
    \/ a.priority = b.priority /\ a.added_at < b.added_at

\* C1: whenever get_next(p) hands an item out, the item is PENDING, is of provider
\* p when p is given, and no PENDING item that p admits has a smaller pair
\* (priority value, added_at); when a PENDING item that p admits exists, one is
\* handed out.
C1_GetNextMinimal ==
    [][\A p \in AnyProvider : GetNext(p) =>
          /\ \A k \in AllKeys : HandedOut(k) =>
                /\ Matches(ItemOf(items, k), p)
                /\ \A i \in DOMAIN items :
                      (items[i].status = PENDING /\ Matches(items[i], p))
                          => ~PairLess(items[i], ItemOf(items, k))
          /\ (\E i \in DOMAIN items : items[i].status = PENDING /\ Matches(items[i], p))
                => \E k \in AllKeys : HandedOut(k)]_vars

\* C1 witness: a CRITICAL item added later is handed out while a NORMAL item of
\* the same provider, added earlier and never handed out, is still PENDING.
C1_Witness ==
    \E i, j \in DOMAIN items :
        /\ j < i
        /\ ProviderOf(items[i]) = ProviderOf(items[j])
        /\ items[i].status = IN_PROGRESS /\ items[i].priority = CRITICAL
        /\ items[j].status = PENDING /\ items[j].priority = NORMAL
        /\ items[j].attempt_count = 0
        /\ items[j].added_at < items[i].added_at

\* the entries of a snapshot file
Entries(fs, p) ==
    IF fs[p] \in {NoFile, Unparsable} THEN {}
    ELSE {fs[p][i] : i \in DOMAIN fs[p]}

\* C2: a get_next(p) call with a PENDING item that p admits hands exactly one item
\* out: its status becomes IN_PROGRESS, its attempt_count grows by 1, the snapshot
\* of its provider holds the new state of the provider's live items, and every
\* other live item keeps its status, priority and attempt_count; with no such
\* PENDING item the call changes neither the live store nor any snapshot.
C2_GetNextFrame ==
    [][\A p \in AnyProvider : GetNext(p) =>
          IF \E i \in DOMAIN items : items[i].status = PENDING /\ Matches(items[i], p)
          THEN \E k \in Keys(items) :
                  /\ HandedOut(k)
                  /\ Keys(items') = Keys(items)
                  /\ ItemOf(items', k).attempt_count = ItemOf(items, k).attempt_count + 1
                  /\ ItemOf(items', k).priority = ItemOf(items, k).priority
                  /\ \A i \in DOMAIN items' :
                        ProviderOf(items'[i]) = ProviderOf(ItemOf(items, k))
                            => items'[i] \in Entries(files', ProviderOf(items'[i]))
                  /\ \A j \in Keys(items) \ {k} :
                        /\ ItemOf(items', j).status = ItemOf(items, j).status
                        /\ ItemOf(items', j).priority = ItemOf(items, j).priority
                        /\ ItemOf(items', j).attempt_count = ItemOf(items, j).attempt_count
          ELSE items' = items /\ files' = files]_vars

\* C2 witness: an item was handed out (IN_PROGRESS, one attempt, so written to its
\* provider's snapshot) while another live item is still PENDING and untouched.
C2_Witness ==
    \E i, j \in DOMAIN items :
        /\ items[i].status = IN_PROGRESS /\ items[i].attempt_count = 1
        /\ items[i] \in Entries(files, ProviderOf(items[i]))
        /\ items[j].status = PENDING /\ items[j].attempt_count = 0

\* C3: fail(item, message) records message as last_error, sets the status to
\* FAILED when attempt_count >= max_attempts and to PENDING otherwise, keeps
\* attempt_count, priority and added_at, and keeps the item in the live store.
C3_FailRecords ==
    [][\A k \in AllKeys : \A m \in Messages : Fail(k, m) =>
          /\ Keys(items') = Keys(items)
          /\ ItemOf(items', k).last_error = m
          /\ ItemOf(items', k).status =
                IF ItemOf(items, k).attempt_count >= max_attempts THEN FAILED ELSE PENDING
          /\ ItemOf(items', k).attempt_count = ItemOf(items, k).attempt_count
          /\ ItemOf(items', k).priority = ItemOf(items, k).priority
          /\ ItemOf(items', k).added_at = ItemOf(items, k).added_at]_vars

\* C3 witness: one item failed for good on its third attempt and another was
\* put back to PENDING by fail, each with the message recorded.
C3_Witness ==
    \E i, j \in DOMAIN items :
        /\ items[i].status = FAILED /\ items[i].attempt_count = max_attempts
        /\ items[i].last_error \in Messages
        /\ items[j].status = PENDING /\ items[j].attempt_count = 1
        /\ items[j].last_error \in Messages

\* every handout of the item with key k was answered by a fail call in this process
Answered(k) ==
    ItemOf(items, k).attempt_count =
        failCalls[k] + (IF ItemOf(items, k).status = IN_PROGRESS THEN 1 ELSE 0)

\* C4: for an item each of whose handouts is answered by fail, the n-th fail call
\* leaves it PENDING for n < max_attempts and FAILED for n = max_attempts (there
\* is no later call); and a FAILED item is never handed out: as long as it is
\* live it stays FAILED.
C4_RetryExhaustion ==
    [][/\ \A k \in AllKeys : \A m \in Messages : (Fail(k, m) /\ Answered(k)) =>
              /\ failCalls'[k] <= max_attempts
              /\ ItemOf(items', k).status =
                    IF failCalls'[k] < max_attempts THEN PENDING ELSE FAILED
       /\ \A k \in Keys(items) : ItemOf(items, k).status = FAILED =>
              \/ k \notin Keys(items')
              \/ /\ ItemOf(items', k).status = FAILED
                 /\ ItemOf(items', k).attempt_count = ItemOf(items, k).attempt_count]_vars

\* C4 witness: the third fail call on an item made it FAILED.
C4_Witness ==
    \E i \in DOMAIN items :
        /\ failCalls[items[i].key] = max_attempts
        /\ items[i].attempt_count = max_attempts
        /\ items[i].status = FAILED

\* the step is a clear that covers provider p, or a restart
ClearStep(p) == Clear(p) \/ Clear(None)
RestartStep == \E o \in GlobOrders : Restart(o)

\* the item with key k is live and FAILED after the step, and get_stats counts it
StaysFailed(k) ==
    /\ k \in Keys(items')
    /\ ItemOf(items', k).status = FAILED
    /\ get_stats(items', ProviderOf(ItemOf(items, k)))[FAILED] >= 1
    /\ get_stats(items', None)[FAILED] >= 1

\* C5 as stated: a FAILED item stays FAILED and counted by get_stats over every
\* step that is not a clear of its provider, a restart included.
C5_FailedSurvivesRestart ==
    [][\A k \in Keys(items) :
          (ItemOf(items, k).status = FAILED /\ ~ClearStep(ProviderOf(ItemOf(items, k))))
              => StaysFailed(k)]_vars

\* C5 amended: a FAILED item stays FAILED and counted by get_stats over every
\* step of the same process that is not a clear of its provider; a restart does
\* not restore it.
C5_FailedStaysInProcess ==
    [][\A k \in Keys(items) :
          ItemOf(items, k).status = FAILED =>
              /\ (~ClearStep(ProviderOf(ItemOf(items, k))) /\ ~RestartStep) => StaysFailed(k)
              /\ RestartStep => k \notin Keys(items')]_vars

\* C5 witness: get_stats counts a FAILED item beside another item of its
\* provider that the queue went on to hand out.
C5_Witness ==
    \E i, j \in DOMAIN items :
        /\ items[i].status = FAILED
        /\ items[j].status = IN_PROGRESS
        /\ ProviderOf(items[i]) = ProviderOf(items[j])
        /\ get_stats(items, ProviderOf(items[i]))[FAILED] = 1
        /\ get_stats(items, ProviderOf(items[i]))["total"] = 2

\* C6: complete(item) removes the key from the live store, and a reload of the
\* snapshots right after it does not bring the item back.
C6_CompleteDestroys ==
    [][\A k \in AllKeys : Complete(k) =>
          /\ k \notin Keys(items')
          /\ \A o \in GlobOrders : k \notin Keys(Reload(files', o))]_vars

\* the keys of the live items that are PENDING or IN_PROGRESS
OpenKeys(its) == {k \in Keys(its) : ItemOf(its, k).status \in {PENDING, IN_PROGRESS}}

\* C7: in every reachable state a new ScrapeQueue on the same directory holds
\* exactly the keys that are PENDING or IN_PROGRESS in the live store, all
\* PENDING, with the same priority and attempt_count.
C7_RoundTrip ==
    \A o \in GlobOrders :
        /\ Keys(Reload(files, o)) = OpenKeys(items)
        /\ \A k \in OpenKeys(items) :
              /\ ItemOf(Reload(files, o), k).status = PENDING
              /\ ItemOf(Reload(files, o), k).priority = ItemOf(items, k).priority
              /\ ItemOf(Reload(files, o), k).attempt_count = ItemOf(items, k).attempt_count

NoDuplicates(its) == \A i, j \in DOMAIN its : its[i].key = its[j].key => i = j

\* the live items of provider p that are PENDING or IN_PROGRESS
OpenCount(its, p) ==
    Cardinality({i \in DOMAIN its :
        ProviderOf(its[i]) = p /\ its[i].status \in {PENDING, IN_PROGRESS}})

C9_CrashRecovery ==
    [][RestartStep =>
          \A k \in Keys(items) : ItemOf(items, k).status = IN_PROGRESS =>
              /\ k \in Keys(items')
              /\ ItemOf(items', k).status = PENDING
              /\ ItemOf(items', k).attempt_count = ItemOf(items, k).attempt_count]_vars

\* C9 witness: an item is PENDING with one attempt and no fail call made on it:
\* it was IN_PROGRESS when the process stopped.
C9_Witness ==
    \E i \in DOMAIN items :
        /\ items[i].status = PENDING
        /\ items[i].attempt_count = 1
        /\ items[i].last_error = None
        /\ failCalls[items[i].key] = 0

\* C10: in every reachable state each live PENDING or IN_PROGRESS item is in its
\* provider's snapshot as PENDING or IN_PROGRESS, and a reload yields it PENDING.
C10_NoItemLost ==
    \A i \in DOMAIN items : items[i].status \in {PENDING, IN_PROGRESS} =>
        /\ \E e \in Entries(files, ProviderOf(items[i])) :
              e.key = items[i].key /\ e.status \in {PENDING, IN_PROGRESS}
        /\ \A o \in GlobOrders :
              /\ items[i].key \in Keys(Reload(files, o))
              /\ ItemOf(Reload(files, o), items[i].key).status = PENDING

\* C10 witness: items of two providers, one IN_PROGRESS with two attempts and
\* one PENDING, each in its provider's snapshot.
C10_Witness ==
    \E i, j \in DOMAIN items :
        /\ ProviderOf(items[i]) # ProviderOf(items[j])
        /\ items[i].status = IN_PROGRESS /\ items[i].attempt_count = 2
        /\ items[j].status = PENDING
        /\ items[i] \in Entries(files, ProviderOf(items[i]))
        /\ items[j] \in Entries(files, ProviderOf(items[j]))

\* a queue file that is missing, unparsable, or holds an entry that fails validation
Unusable(f) == f \in {NoFile, Unparsable} \/ \E i \in DOMAIN f : ~Valid(f[i])

\* C11: the constructor takes no item from a provider's missing or corrupt
\* snapshot, a snapshot valid up to a corrupt entry included, and loads the
\* snapshots of the other providers in full.
C11_CorruptIsEmpty ==
    [][\A o \in GlobOrders : Restart(o) =>
          \A p \in Providers :
              /\ Unusable(files[p]) => OfProvider(items', p) = << >>
              /\ ~Unusable(files[p]) => OfProvider(items', p) = LoadItems(<< >>, files[p])]_vars

Min(a, b) == IF a < b THEN a ELSE b

\* C12: the live store never holds two items with one unique_key; within a
\* process the priority value of a live item never increases; and add on an
\* existing key sets the priority to the more urgent of the old and the new one
\* and leaves status, attempt_count, added_at and the payload of the existing
\* item, and every other item, as they were.
C12_OnePerKeyEscalateOnly ==
    /\ []NoDuplicates(items)
    /\ [][/\ ~RestartStep =>
              \A k \in Keys(items) \cap Keys(items') :
                  ItemOf(items', k).priority <= ItemOf(items, k).priority
          /\ \A c \in AddCalls : (Add(c) /\ c.key \in Keys(items)) =>
                /\ Len(items') = Len(items)
                /\ \A i \in DOMAIN items :
                      IF items[i].key = c.key
                      THEN items'[i] =
                             [items[i] EXCEPT
                                !.priority = Min(items[i].priority, c.priority),
                                !.reason = IF c.priority < items[i].priority
                                           THEN c.reason ELSE items[i].reason]
                      ELSE items'[i] = items[i]]_vars

\* C12 witness: an item that was handed out and then added again with a more
\* urgent priority: the live item is CRITICAL, its snapshot entry still NORMAL.
C12_Witness ==
    \E i \in DOMAIN items :
        /\ items[i].priority = CRITICAL
        /\ items[i].attempt_count >= 1
        /\ \E e \in Entries(files, ProviderOf(items[i])) :
              e.key = items[i].key /\ e.priority = NORMAL

\* C13: after every add call the provider's snapshot holds the item with its
\* current priority and reason, so a reload right after the call shows them.
C13_AddPersists ==
    [][\A c \in AddCalls : Add(c) =>
          /\ \E e \in Entries(files', c.provider) :
                /\ e.key = c.key
                /\ e.priority = ItemOf(items', c.key).priority
                /\ e.reason = ItemOf(items', c.key).reason
          /\ \A o \in GlobOrders :
                /\ c.key \in Keys(Reload(files', o))
                /\ ItemOf(Reload(files', o), c.key).priority = ItemOf(items', c.key).priority]_vars

\* the keys of a batch's payloads
BatchKeys(b) == {b.calls[i].key : i \in DOMAIN b.calls}

\* C14: add_batch inserts a PENDING item with no attempts and the batch's
\* priority and reason for exactly the payload keys the store does not hold,
\* leaves every existing item untouched, inserts a key repeated in the batch
\* once, and returns the number of items inserted.
C14_BatchFrame ==
    [][\A b \in BatchCalls : AddBatch(b) =>
          /\ Keys(items') = Keys(items) \cup BatchKeys(b)
          /\ NoDuplicates(items')
          /\ \A k \in Keys(items) : ItemOf(items', k) = ItemOf(items, k)
          /\ \A i \in DOMAIN b.calls : b.calls[i].key \notin Keys(items) =>
                /\ ItemOf(items', b.calls[i].key).status = PENDING
                /\ ItemOf(items', b.calls[i].key).attempt_count = 0
                /\ ItemOf(items', b.calls[i].key).priority = b.calls[i].priority
                /\ ItemOf(items', b.calls[i].key).reason = b.calls[i].reason
                /\ ItemOf(items', b.calls[i].key).vehicle_data = b.calls[i].vehicle
          /\ created' - created = Cardinality(BatchKeys(b) \ Keys(items))]_vars

\* C14 witness: a batch of HIGH payloads for the Yaris and the Corolla met a
\* live Yaris of lower urgency: the Yaris is as it was, the Corolla is new.
C14_Witness ==
    \E i, j \in DOMAIN items :
        /\ items[i].key = AddCall(Yaris, "toyota_nl", HIGH).key
        /\ items[i].priority = NORMAL /\ items[i].attempt_count = 1
        /\ items[j].key = AddCall(Corolla, "toyota_nl", HIGH).key
        /\ items[j].priority = HIGH /\ items[j].reason = "changed"
        /\ items[j].status = PENDING /\ items[j].attempt_count = 0

\* C15: clear(p) removes every live item of p and p's snapshot and leaves the
\* items and snapshots of the other providers as they were; clear() empties the
\* store and removes every snapshot; a reload after either restores no item
\* of a cleared provider.
C15_ClearFrame ==
    [][\A p \in AnyProvider : Clear(p) =>
          \A q \in Providers :
              IF p = None \/ q = p
              THEN /\ OfProvider(items', q) = << >>
                   /\ files'[q] = NoFile
                   /\ \A o \in GlobOrders : OfProvider(Reload(files', o), q) = << >>
              ELSE /\ OfProvider(items', q) = OfProvider(items, q)
                   /\ files'[q] = files[q]]_vars

\* C15 witness: with no item ever handed out, a toyota_nl item was created and
\* is gone with its snapshot, while the suzuki_nl item added at time 0 and its
\* snapshot are in place.
C15_Witness ==
    /\ handouts = 0 /\ created = 2
    /\ files["toyota_nl"] = NoFile
    /\ Len(items) = 1
    /\ ProviderOf(items[1]) = "suzuki_nl" /\ items[1].added_at = 0
    /\ files["suzuki_nl"] = items
    /\ now = 1

\* the unique_keys of a bucket
KeysOf(bucket) == {unique_key(bucket[i]) : i \in DOMAIN bucket}

\* the four buckets of the overview keys, and all five
OverviewBuckets(r) ==
    <<r.new_vehicles, r.changed_vehicles, r.stale_vehicles, r.unchanged_vehicles>>
AllBuckets(r) == Append(OverviewBuckets(r), r.removed_vehicles)

\* the cached fingerprint of key k for the call c
CachedFp(c, k) == ItemOf(_load_cached_offers(cache, c.provider), k).fingerprint
CachedOffer(c, k) == ItemOf(_load_cached_offers(cache, c.provider), k).offer
\* the overview fingerprint of key k for the call c
OverviewFp(c, k) ==
    ItemOf(OverviewByKey(<< >>, c.overview_vehicles, c.provider, c.brand), k).fingerprint

\* the buckets of result r partition the keys of call c
Partitioned(r, c) ==
    /\ \A i, j \in 1..5 : i # j => KeysOf(AllBuckets(r)[i]) \cap KeysOf(AllBuckets(r)[j]) = {}
    /\ \A i \in 1..5 : Len(AllBuckets(r)[i]) = Cardinality(KeysOf(AllBuckets(r)[i]))
    /\ UNION {KeysOf(OverviewBuckets(r)[i]) : i \in 1..4} = OverviewKeys(c)
    /\ KeysOf(r.removed_vehicles) =
          {k \in CachedKeys(cache, c) \ OverviewKeys(c) :
              c.brand = EmptyStr \/ Lower(CachedFp(c, k).brand) = Lower(c.brand)}

\* C16: every detect_changes run yields buckets that are pairwise disjoint by
\* unique_key, with every key of the brand-filtered overview in exactly one of
\* new, changed, stale, unchanged, and removed exactly the cached keys of the
\* brand that are absent from the overview.
C16_EveryRunPartitions ==
    detection.run >= 1 =>
        /\ ~detection.result.raised
        /\ Partitioned(detection.result, detection.call)

\* the bucket the classification rule gives key k of call c on day t; the rule
\* is silent on a cached entry without a parsable timestamp
RuleBucket(c, k, t) ==
    IF k \notin CachedKeys(cache, c) THEN "new"
    ELSE IF fingerprint_hash(OverviewFp(c, k)) # fingerprint_hash(CachedFp(c, k)) THEN "changed"
    ELSE IF "scraped_at" \notin DOMAIN CachedOffer(c, k) THEN "silent"
    ELSE IF CachedOffer(c, k).scraped_at.kind \notin {"naive", "aware"} THEN "silent"
    ELSE IF t - CachedOffer(c, k).scraped_at.t > freshness_days THEN "stale"
    ELSE "unchanged"

BucketNamed(r, name) ==
    CASE name = "new" -> r.new_vehicles
      [] name = "changed" -> r.changed_vehicles
      [] name = "stale" -> r.stale_vehicles
      [] name = "unchanged" -> r.unchanged_vehicles

\* C17: detect_changes puts each overview key in the bucket of the rule: not
\* cached -> new; hash differs -> changed; hash equal and older than
\* freshness_days -> stale; hash equal and at most freshness_days old -> unchanged.
C17_ClassificationRule ==
    detection.run >= 1 =>
        /\ ~detection.result.raised
        /\ \A k \in OverviewKeys(detection.call) :
              RuleBucket(detection.call, k, detection.clock) # "silent" =>
                  k \in KeysOf(BucketNamed(detection.result,
                                           RuleBucket(detection.call, k, detection.clock)))

\* C18: an overview key whose cached entry has an equal hash and a timestamp
\* that cannot be parsed is classified stale, so it is in needs_scraping and not
\* in unchanged.
C18_UnparsableIsStale ==
    (detection.run >= 1 /\ ~detection.result.raised) =>
        \A k \in OverviewKeys(detection.call) \cap CachedKeys(cache, detection.call) :
            (/\ fingerprint_hash(OverviewFp(detection.call, k))
                    = fingerprint_hash(CachedFp(detection.call, k))
             /\ "scraped_at" \in DOMAIN CachedOffer(detection.call, k)
             /\ CachedOffer(detection.call, k).scraped_at = Garbage)
            => /\ k \in KeysOf(detection.result.stale_vehicles)
               /\ k \in KeysOf(needs_scraping(detection.result))
               /\ k \notin KeysOf(detection.result.unchanged_vehicles)

\* two outcomes of detect_changes with the same keys in each bucket
SameBuckets(r1, r2) ==
    /\ r1.raised = r2.raised
    /\ ~r1.raised => \A i \in 1..5 : KeysOf(AllBuckets(r1)[i]) = KeysOf(AllBuckets(r2)[i])

\* C19: a detect_changes run with the arguments, cache and clock of the run
\* before it yields the same keys in each of the five buckets, and no run
\* changes the cache or the queue.
C19_DetectIdempotent ==
    [][detection'.run = detection.run + 1 =>
          /\ cache' = cache /\ items' = items /\ files' = files
          /\ detection'.repeated =>
                /\ detection'.call = detection.call /\ detection'.clock = detection.clock
                /\ SameBuckets(detection.result, detection'.result)]_vars

\* C19 witness: the second of two equal runs, with a new, a stale and a removed key.
C19_Witness ==
    /\ detection.run = 2 /\ detection.repeated
    /\ ~detection.result.raised
    /\ detection.result.new_vehicles # << >>
    /\ detection.result.stale_vehicles # << >>
    /\ detection.result.removed_vehicles # << >>

\* the five fields of a fingerprint that identify the vehicle
FiveTuple(fp) == <<fp.provider, fp.brand, fp.model, fp.edition_name, fp.variant_slug>>

\* C20: two fingerprints have the same unique_key exactly when they agree on
\* provider, brand, model, edition and variant.
C20_KeyInjective ==
    keyed.keys # << >> =>
        (keyed.keys[1] = keyed.keys[2]
            <=> FiveTuple(from_vehicle_dict(keyed.a.vehicle, keyed.a.provider))
                  = FiveTuple(from_vehicle_dict(keyed.b.vehicle, keyed.b.provider)))

\* the three values fingerprint_hash is a function of
HashedData(input) ==
    LET fp == from_vehicle_dict(input.vehicle, input.provider)
    IN  <<unique_key(fp), fp.url, fp.extra_attributes>>

\* C21: two fingerprints have the same fingerprint_hash exactly when they agree
\* on unique_key, url and every attribute, whatever the order in which the
\* attributes were inserted.
C21_HashFaithful ==
    keyed.keys # << >> =>
        (keyed.hashes[1] = keyed.hashes[2] <=> HashedData(keyed.a) = HashedData(keyed.b))

\* a field value with null degraded to the empty string
Blank(value) == IF value = Null THEN EmptyStr ELSE value

\* the fingerprint the payload should give: missing and null fields are empty
Degraded(vehicle, provider) ==
    LET fp == from_vehicle_dict(vehicle, provider)
    IN  [fp EXCEPT !.brand = Blank(fp.brand), !.model = Blank(fp.model),
                   !.edition_name = Blank(fp.edition_name),
                   !.variant_slug = Blank(fp.variant_slug), !.url = Blank(fp.url)]

\* C22: add of a payload whose identity fields are missing or null does not
\* raise: afterwards the store holds an item of the payload's key, a new item
\* has the payload's fingerprint with the missing and null fields empty, and
\* the items of other keys that the store held before are unchanged.
C22_MalformedEnqueued ==
    [][\A c \in UpstreamCalls :
          AddPayload(c) =>
              /\ ~keyed'.raised
              /\ unique_key(Degraded(c.vehicle, c.provider)) \in Keys(items')
              /\ unique_key(Degraded(c.vehicle, c.provider)) \notin Keys(items)
                    => \E i \in DOMAIN items' :
                          items'[i].fingerprint = Degraded(c.vehicle, c.provider)
              /\ \A i \in DOMAIN items :
                    items[i].key # unique_key(Degraded(c.vehicle, c.provider))
                        => items'[i] = items[i]]_vars

\* a step that answers the handout of key k or ends its item: complete, fail,
\* a clear that covers it, or a restart
Releases(k) ==
    \/ Complete(k)
    \/ \E error \in Messages : Fail(k, error)
    \/ ClearStep(ProviderOf(ItemOf(items, k)))
    \/ RestartStep

\* C23: within one process an IN_PROGRESS item stays IN_PROGRESS, with the
\* attempt count of its handout, over every step that is not complete or fail
\* on it or a clear that covers it: get_next hands out only PENDING items, and
\* add and add_batch on its key leave its status alone.
C23_InProgressHeld ==
    [][\A k \in Keys(items) :
          (ItemOf(items, k).status = IN_PROGRESS /\ ~Releases(k)) =>
              /\ k \in Keys(items')
              /\ ItemOf(items', k).status = IN_PROGRESS
              /\ ItemOf(items', k).attempt_count = ItemOf(items, k).attempt_count
              /\ ~HandedOut(k)]_vars

\* C23 witness: an item in progress was added again with a more urgent priority
\* (the store holds CRITICAL, the snapshot written at its handout holds NORMAL)
\* while another item is in progress as well, and it is still in progress after
\* its one handout.
C23_Witness ==
    \E i, j \in DOMAIN items :
        /\ i # j
        /\ items[i].status = IN_PROGRESS /\ items[i].attempt_count = 1
        /\ items[i].priority = CRITICAL
        /\ \E e \in Entries(files, ProviderOf(items[i])) :
              e.key = items[i].key /\ e.status = IN_PROGRESS /\ e.priority = NORMAL
        /\ items[j].status = IN_PROGRESS

\* the step is the create_queue_from_changes call of build_queue
CreateStep == "loaded" \notin DOMAIN keyed /\ "loaded" \in DOMAIN keyed'

\* the keys of a bucket of the detection result
BucketKeys(fps) == {unique_key(fps[i]) : i \in DOMAIN fps}

\* the buckets that are enqueued, with the priority of each
Enqueued ==
    {<<detection.result.new_vehicles, CRITICAL>>,
     <<detection.result.changed_vehicles, HIGH>>,
     <<detection.result.stale_vehicles, NORMAL>>}

\* the keys that are in no bucket to scrape
NotToScrape ==
    (BucketKeys(detection.result.unchanged_vehicles)
        \cup BucketKeys(detection.result.removed_vehicles))
    \ BucketKeys(needs_scraping(detection.result))

\* the priority of the bucket of key k, or 0 for a key in none of the three
BucketPriority(k) ==
    IF \E b \in Enqueued : k \in BucketKeys(b[1])
    THEN (CHOOSE b \in Enqueued : k \in BucketKeys(b[1]))[2]
    ELSE 0

\* get_next on a queue built from an empty directory hands out a key while no
\* PENDING key of a more urgent bucket is left
BucketOrder ==
    ("loaded" \in DOMAIN keyed /\ keyed.loaded = << >>) =>
        \A k \in Keys(items) :
            HandedOut(k) =>
                \A i \in DOMAIN items :
                    items[i].status = PENDING
                        => BucketPriority(items[i].key) >= BucketPriority(k)

\* C24 as stated: create_queue_from_changes leaves every new vehicle in the
\* queue as CRITICAL/new_vehicle, every changed one as HIGH/changed and every
\* stale one as NORMAL/stale, adds no vehicle that is only unchanged or removed,
\* and on a queue built from nothing the driver takes new before changed before
\* stale.
C24_BucketsEnqueued ==
    [][/\ CreateStep =>
            /\ \A b \in Enqueued : \A k \in BucketKeys(b[1]) :
                  /\ k \in Keys(items')
                  /\ ItemOf(items', k).priority = b[2]
                  /\ ItemOf(items', k).reason = ReasonFor(b[2])
            /\ \A k \in NotToScrape : k \in Keys(items') => k \in Keys(keyed'.loaded)
       /\ BucketOrder]_vars

\* C24 amended: after create_queue_from_changes every new, changed and stale
\* vehicle is live in the queue with a priority at least as urgent as
\* CRITICAL, HIGH and NORMAL respectively; a vehicle the constructor had not
\* loaded from the queue directory is PENDING with exactly that priority and its
\* reason; no vehicle that is only unchanged or removed is added; and on a queue
\* built from an empty directory the driver takes new before changed before
\* stale.
C24_BucketsEscalated ==
    [][/\ CreateStep =>
            /\ \A b \in Enqueued : \A k \in BucketKeys(b[1]) :
                  /\ k \in Keys(items')
                  /\ ItemOf(items', k).priority <= b[2]
                  /\ k \notin Keys(keyed'.loaded) =>
                        /\ ItemOf(items', k).priority = b[2]
                        /\ ItemOf(items', k).reason = ReasonFor(b[2])
                        /\ ItemOf(items', k).status = PENDING
                        /\ ItemOf(items', k).attempt_count = 0
            /\ \A k \in NotToScrape : k \in Keys(items') => k \in Keys(keyed'.loaded)
       /\ BucketOrder]_vars

\* C24 witness: the queue was built on a directory that held a LOW item of a
\* vehicle now new, which is CRITICAL and handed out, while a stale vehicle
\* that was added as NORMAL waits.
C24_Witness ==
    /\ "loaded" \in DOMAIN keyed
    /\ \E i, j \in DOMAIN items :
          /\ items[i].key \in BucketKeys(detection.result.new_vehicles)
          /\ items[i].key \in Keys(keyed.loaded)
          /\ ItemOf(keyed.loaded, items[i].key).priority = LOW
          /\ items[i].priority = CRITICAL /\ items[i].status = IN_PROGRESS
          /\ items[j].key \in BucketKeys(detection.result.stale_vehicles)
          /\ items[j].priority = NORMAL /\ items[j].status = PENDING

\* the fields an offer record of the cache carries beyond the overview payload
OpaqueFields == {"scraped_at"}

\* the discovery attributes of a fingerprint: extra_attributes without the
\* fields of the offer record
Discovery(fp) ==
    [name \in DOMAIN fp.extra_attributes \ OpaqueFields |-> fp.extra_attributes[name]]

\* the overview payload of key k has the identity fields, the url and the
\* discovery attributes of the cached offer
SameAsScraped(c, k) ==
    /\ \A f \in StrFields : OverviewFp(c, k)[f] = CachedFp(c, k)[f]
    /\ Discovery(OverviewFp(c, k)) = Discovery(CachedFp(c, k))

\* C25: a run that returns puts no overview key in changed whose payload has the
\* identity fields, url and discovery attributes of its cached offer: it is
\* unchanged, or stale by age.
C25_PayloadNotCompared ==
    (detection.run >= 1 /\ ~detection.result.raised) =>
        \A k \in OverviewKeys(detection.call) \cap CachedKeys(cache, detection.call) :
            SameAsScraped(detection.call, k) =>
                /\ k \notin KeysOf(detection.result.changed_vehicles)
                /\ k \in KeysOf(detection.result.unchanged_vehicles)
                            \cup KeysOf(detection.result.stale_vehicles)

\* C26: every detect_changes run returns a result, whatever the shape of the
\* cached scraped_at values (absent, unparsable, without zone, with 'Z' or a
\* UTC offset), and the result holds every overview key in one of new, changed,
\* stale and unchanged.
C26_NeverFatal ==
    detection.run >= 1 =>
        /\ ~detection.result.raised
        /\ UNION {KeysOf(OverviewBuckets(detection.result)[i]) : i \in 1..4}
              = OverviewKeys(detection.call)

\* C27: within one process a FAILED item stays FAILED with its attempts, and is
\* not handed out, over every step that is not a clear covering it: add and
\* add_batch on its key, get_next and operations on other items leave its
\* status, and fail on it leaves it FAILED.
C27_FailedTerminal ==
    [][\A k \in Keys(items) :
          ItemOf(items, k).status = FAILED =>
              /\ \A error \in Messages : mark_failed(ItemOf(items, k), error).status = FAILED
              /\ (~ClearStep(ProviderOf(ItemOf(items, k))) /\ ~RestartStep) =>
                    /\ k \in Keys(items')
                    /\ ItemOf(items', k).status = FAILED
                    /\ ItemOf(items', k).attempt_count = ItemOf(items, k).attempt_count
                    /\ ~HandedOut(k)]_vars

\* C27 witness: a FAILED item was added again with a more urgent priority (the
\* store holds CRITICAL, the snapshot written when it failed holds NORMAL) and
\* is still FAILED with max_attempts attempts.
C27_Witness ==
    \E i \in DOMAIN items :
        /\ items[i].status = FAILED /\ items[i].attempt_count = max_attempts
        /\ items[i].priority = CRITICAL
        /\ \E e \in Entries(files, ProviderOf(items[i])) :
              e.key = items[i].key /\ e.status = FAILED /\ e.priority = NORMAL

\* C28: process_queue, with no item added meanwhile, eventually gets None from
\* get_next, and from then on every item of the provider that was PENDING at
\* the start is removed or FAILED, whatever the outcome of each scrape.
C28_DriverTerminates ==
    /\ <>(keyed.pc = "done")
    /\ [](keyed.pc = "done" =>
            \A k \in keyed.start : k \notin Keys(items) \/ ItemOf(items, k).status = FAILED)

\* C28 witness: the loop has ended on a queue in which one item that was
\* PENDING at the start was completed and another is FAILED after its last
\* attempt.
C28_Witness ==
    /\ keyed.pc = "done"
    /\ \E k, j \in keyed.start :
          /\ k \notin Keys(items)
          /\ j \in Keys(items) /\ ItemOf(items, j).status = FAILED
          /\ ItemOf(items, j).attempt_count = max_attempts
          /\ ItemOf(items, j).last_error \in Messages

\* C29: in every reachable state, the states reached by a crash and reload
\* while an item was IN_PROGRESS included, every live item has at most
\* max_attempts attempts.
C29_AttemptsBounded ==
    \A i \in DOMAIN items : items[i].attempt_count <= max_attempts

\* the step is an operation of the queue applied to provider p
StepOn(p) ==
    \/ \E c \in AddCalls : c.provider = p /\ Add(c)
    \/ \E b \in BatchCalls : b.provider = p /\ AddBatch(b)
    \/ GetNext(p)
    \/ \E k \in Keys(items) :
          /\ ProviderOf(ItemOf(items, k)) = p
          /\ (Complete(k) \/ \E error \in Messages : Fail(k, error))
    \/ Clear(p)

\* C30: add, add_batch, get_next(p), complete, fail and clear(p) applied to
\* provider p leave every live item of another provider live with its status,
\* priority and attempt_count, leave the snapshot of every other provider as it
\* was, and get_next(p) hands out only items of provider p.
C30_ProviderIsolation ==
    [][\A p \in Providers : StepOn(p) =>
          /\ \A i \in DOMAIN items :
                ProviderOf(items[i]) # p =>
                    /\ items[i].key \in Keys(items')
                    /\ ItemOf(items', items[i].key).status = items[i].status
                    /\ ItemOf(items', items[i].key).priority = items[i].priority
                    /\ ItemOf(items', items[i].key).attempt_count = items[i].attempt_count
          /\ \A q \in Providers \ {p} : files'[q] = files[q]
          /\ GetNext(p) => \A k \in Keys(items) :
                HandedOut(k) => ProviderOf(ItemOf(items, k)) = p]_vars

\* C30 witness: an item of one provider was added later and handed out while
\* the item of the other provider, escalated by an add its snapshot has not
\* seen, is live and PENDING with no attempts.
C30_Witness ==
    \E i, j \in DOMAIN items :
        /\ ProviderOf(items[i]) # ProviderOf(items[j])
        /\ items[i].status = IN_PROGRESS /\ items[i].added_at > items[j].added_at
        /\ items[j].status = PENDING /\ items[j].attempt_count = 0
        /\ items[i] \in Entries(files, ProviderOf(items[i]))
        /\ \E e \in Entries(files, ProviderOf(items[j])) :
              e.key = items[j].key /\ e.priority > items[j].priority

=============================================================================
